---- MODULE Spec2Model ----
(***************************************************************************)
(* vhost-user RPMB backend: the backing store (src/src/rpmb.rs) and the    *)
(* virtqueue protocol engine (src/src/vhu_rpmb.rs), as a state machine.    *)
(* One step of the device is one step of handle_event / process_queue:     *)
(* entering the handler, draining the available ring, starting a chain,    *)
(* handling one readable buffer, returning the chain.  The guest may make  *)
(* a new chain available between any two steps.  Guest memory is the       *)
(* guest's: what a descriptor or a buffer holds is fixed at the moment the *)
(* device reads it, and each is read once.                                 *)
(***************************************************************************)
EXTENDS Integers, Sequences, FiniteSets, TLC

\* Chains the guest may have outstanding at once (the model's stand-in for
\* the 1024-entry queue), and descriptors in one chain.
MaxHeads == 2
MaxChainLen == 3

\* Backing files of up to this many 128 KiB units (and a part of one more).
MaxImageUnits == 130

\* ------------------------------------------------------------------------
\* Program constants

KB == 1024
RPMB_KEY_MAC_SIZE == 32
RPMB_BLOCK_SIZE == 256
VIRTIO_RPMB_REQ_PROGRAM_KEY == 1
VIRTIO_RPMB_REQ_RESULT_READ == 5
VIRTIO_RPMB_RESP_PROGRAM_KEY == 256
VIRTIO_RPMB_RES_OK == 0
VIRTIO_RPMB_RES_GENERAL_FAILURE == 1
VIRTIO_RPMB_RES_WRITE_FAILURE == 5

UNIT_128KB ==
    KB * 128

MAX_RPMB_SIZE ==
    UNIT_128KB * 128

\* size_of::<VirtIORPMBFrame>(): the packed struct's fields added up.
FrameSize ==
    196 + RPMB_KEY_MAC_SIZE + RPMB_BLOCK_SIZE + 16 + 4 + 2 + 2 + 2 + 2

\* ------------------------------------------------------------------------
\* Big-endian 16-bit fields: a field in guest memory is its two bytes.

\* Be16::to_native
ToNative(be) ==
    be[1] * 256 + be[2]

\* From::from(u16) for Be16
FromNative(n) ==
    << (n \div 256) % 256, n % 256 >>

\* ------------------------------------------------------------------------
\* Frames.  key_mac, stuff, data, nonce are byte arrays, named by an id:
\* 0 is the all-zero array.

\* A result frame built in a buffer that still holds a key.
ResultFrame_StaleKey(response, result) ==
    [ stuff |-> 0, key_mac |-> 1, data |-> 0, nonce |-> 0,
      write_counter |-> 0, address |-> 0,
      block_count |-> FromNative(0),
      result |-> FromNative(result),
      req_resp |-> FromNative(response) ]

\* VirtIORPMBFrame::result
ResultFrame(response, result) ==
    [ stuff |-> 0, key_mac |-> 0, data |-> 0, nonce |-> 0,
      write_counter |-> 0, address |-> 0,
      block_count |-> FromNative(0),
      result |-> FromNative(result),
      req_resp |-> FromNative(response) ]

\* A frame as the guest lays it out in a readable buffer.
GuestFrame(req_resp, block_count, key_mac) ==
    [ stuff |-> 0, key_mac |-> key_mac, data |-> 0, nonce |-> 0,
      write_counter |-> 0, address |-> 0,
      block_count |-> block_count,
      result |-> FromNative(0),
      req_resp |-> req_resp ]

\* Key values the guest uses.
KeyMacs == {1, 2}

\* The frames the guest sends: program-key with block_count 1 (each key),
\* program-key whose block_count bytes are in the wrong order (reads as 256),
\* result-read, and a request code the device does not handle.
GuestFrames ==
    { GuestFrame(FromNative(VIRTIO_RPMB_REQ_PROGRAM_KEY), <<0, 1>>, k) : k \in KeyMacs }
    \cup { GuestFrame(FromNative(VIRTIO_RPMB_REQ_PROGRAM_KEY), <<1, 0>>, 1),
           GuestFrame(FromNative(VIRTIO_RPMB_REQ_RESULT_READ), <<0, 0>>, 0),
           GuestFrame(<<0, 2>>, <<0, 0>>, 0) }

\* What a buffer holds that the device has not read or written.
Untouched == [ untouched |-> TRUE ]

\* Descriptors: direction, length, and, for a writable buffer, what the
\* device has written at its address.
Desc(write_only, len) ==
    [ write_only |-> write_only, len |-> len, mem |-> Untouched ]

\* What the guest puts in a chain: readable buffers of a frame's size and of
\* a block's size, writable buffers of a frame's size.
GuestDescs ==
    { Desc(FALSE, FrameSize), Desc(FALSE, RPMB_BLOCK_SIZE), Desc(TRUE, FrameSize) }

\* A descriptor with its buffer's address: the buffers of a chain lie in
\* guest memory in the chain's order, the i-th at address i.
DescAt(addr, write_only, len) ==
    [ addr |-> addr, write_only |-> write_only, len |-> len,
      mem |-> Untouched ]

ReadableFrame == << FALSE, FrameSize >>

WritableFrame == << TRUE, FrameSize >>

WritableBlock == << TRUE, RPMB_BLOCK_SIZE >>

Layout(kinds) ==
    [ i \in 1..Len(kinds) |-> DescAt(i, kinds[i][1], kinds[i][2]) ]

\* Chains as a driver lays them out: request and result-read with the
\* buffer for the reply, two such pairs with one buffer, the reply buffer
\* between the requests, a reply buffer of a block's size.
LayoutChains ==
    { Layout(k) : k \in
        { << ReadableFrame, ReadableFrame, WritableFrame >>,
          << ReadableFrame, ReadableFrame, ReadableFrame, ReadableFrame,
             WritableFrame >>,
          << ReadableFrame, WritableFrame, ReadableFrame >>,
          << WritableFrame, ReadableFrame, WritableFrame >>,
          << ReadableFrame, ReadableFrame, WritableBlock >> } }

\* Descriptor chains of 1..n descriptors.
ChainsUpTo(n) ==
    UNION { [1..l -> GuestDescs] : l \in 1..n }

\* ------------------------------------------------------------------------
\* Backing store (rpmb.rs)

KeyEmpty == [ tag |-> "Empty" ]

KeyProgrammed(k) ==
    [ tag |-> "Programmed", key |-> k ]

\* RpmbMutableState::new
NewState ==
    [ write_count |-> 0, read_count |-> 0, key |-> KeyEmpty ]

\* program_key without the match on self.key: every call stores its key.
StateProgramKey_Overwrite(st, k) ==
    [ state |-> [st EXCEPT !.key = KeyProgrammed(k)], result |-> "Ok" ]

\* program_key that takes the key it already holds as a success.
StateProgramKey_SameKeyOk(st, k) ==
    IF st.key = KeyEmpty \/ st.key = KeyProgrammed(k)
    THEN [ state |-> [st EXCEPT !.key = KeyProgrammed(k)], result |-> "Ok" ]
    ELSE [ state |-> st, result |-> "ProgramFailed" ]

\* RpmbMutableState::program_key: the new state and the result.
StateProgramKey(st, k) ==
    IF st.key = KeyEmpty
    THEN [ state |-> [st EXCEPT !.key = KeyProgrammed(k)], result |-> "Ok" ]
    ELSE [ state |-> st, result |-> "ProgramFailed" ]

\* RpmbBackend::program_key (takes the write lock, calls the state's method)
BackendProgramKey(st, k) ==
    StateProgramKey(st, k)

\* "if len > MAX_RPMB_SIZE { len = MAX_RPMB_SIZE }" left out.
ClampLen_None(len) ==
    len

\* RpmbBackend::new: the length that is mapped.
ClampLen(len) ==
    IF len > MAX_RPMB_SIZE THEN MAX_RPMB_SIZE ELSE len

\* u8::try_from
U8TryFrom(n) ==
    IF n \in 0..255 THEN [ ok |-> TRUE, val |-> n ]
                    ELSE [ ok |-> FALSE, val |-> 0 ]

\* RpmbBackend::new on a file of len bytes; io_ok: open, metadata and mmap
\* succeeded.
BackendNew(len, io_ok) ==
    IF ~io_ok
    THEN [ result |-> "IoError", capacity |-> 0 ]
    ELSE LET c == U8TryFrom(ClampLen(len) \div UNIT_128KB)
         IN  IF c.ok THEN [ result |-> "Ok", capacity |-> c.val ]
                     ELSE [ result |-> "InvalidData", capacity |-> 0 ]

\* File lengths: whole units, one byte more, one byte less than the next.
ImageLens ==
    { u * UNIT_128KB + d : u \in 0..MaxImageUnits, d \in {0, 1, UNIT_128KB - 1} }

\* The image the running device of Spec was started on.
ImageLen ==
    MAX_RPMB_SIZE

\* ------------------------------------------------------------------------
\* Request dispatcher (vhu_rpmb.rs)

NoResponse == [ tag |-> "NoResponse" ]

PendingResponse(req_resp, result) ==
    [ tag |-> "PendingResponse", req_resp |-> req_resp, result |-> result ]

Response(frame) ==
    [ tag |-> "Response", frame |-> frame ]

\* A call of the store's program_key: its argument and what it returned.
KeyCall(k, result) ==
    [ key |-> k, result |-> result ]

NoCall == [ key |-> 0, result |-> "None" ]

\* program_key that reports a failed store call as a general failure.
ProgramKey_GeneralFailure(st, frame) ==
    IF ToNative(frame.block_count) # 1
    THEN [ res |-> PendingResponse(VIRTIO_RPMB_RESP_PROGRAM_KEY,
                                   VIRTIO_RPMB_RES_GENERAL_FAILURE),
           state |-> st, call |-> NoCall ]
    ELSE LET r == BackendProgramKey(st, frame.key_mac)
         IN  [ res |-> PendingResponse(VIRTIO_RPMB_RESP_PROGRAM_KEY,
                           IF r.result = "Ok" THEN VIRTIO_RPMB_RES_OK
                                              ELSE VIRTIO_RPMB_RES_GENERAL_FAILURE),
               state |-> r.state, call |-> KeyCall(frame.key_mac, r.result) ]

\* program_key without the check of block_count.
ProgramKey_NoCountCheck(st, frame) ==
    LET r == BackendProgramKey(st, frame.key_mac)
    IN  [ res |-> PendingResponse(VIRTIO_RPMB_RESP_PROGRAM_KEY,
                      IF r.result = "Ok" THEN VIRTIO_RPMB_RES_OK
                                         ELSE VIRTIO_RPMB_RES_WRITE_FAILURE),
          state |-> r.state, call |-> KeyCall(frame.key_mac, r.result) ]

\* VhostUserRpmb::program_key: the response, the store afterwards, and the
\* call of the store's program_key it made (NoCall when it made none).
ProgramKey(st, frame) ==
    IF ToNative(frame.block_count) # 1
    THEN [ res |-> PendingResponse(VIRTIO_RPMB_RESP_PROGRAM_KEY,
                                   VIRTIO_RPMB_RES_GENERAL_FAILURE),
           state |-> st, call |-> NoCall ]
    ELSE LET r == BackendProgramKey(st, frame.key_mac)
         IN  [ res |-> PendingResponse(VIRTIO_RPMB_RESP_PROGRAM_KEY,
                           IF r.result = "Ok" THEN VIRTIO_RPMB_RES_OK
                                              ELSE VIRTIO_RPMB_RES_WRITE_FAILURE),
               state |-> r.state, call |-> KeyCall(frame.key_mac, r.result) ]

\* The result-read arm without "pending = RequestResponse::NoResponse".
ResultRead_KeepPending(pend) ==
    IF pend.tag = "PendingResponse"
    THEN [ res |-> Response(ResultFrame(pend.req_resp, pend.result)),
           pending |-> pend ]
    ELSE [ res |-> NoResponse, pending |-> pend ]

\* The result-read arm answering with a failure frame when nothing is pending.
ResultRead_AlwaysResponds(pend) ==
    IF pend.tag = "PendingResponse"
    THEN [ res |-> Response(ResultFrame(pend.req_resp, pend.result)),
           pending |-> NoResponse ]
    ELSE [ res |-> Response(ResultFrame(VIRTIO_RPMB_RESP_PROGRAM_KEY,
                                        VIRTIO_RPMB_RES_GENERAL_FAILURE)),
           pending |-> pend ]

\* The result-read arm of the match on req_resp: response and new pending.
ResultRead(pend) ==
    IF pend.tag = "PendingResponse"
    THEN [ res |-> Response(ResultFrame(pend.req_resp, pend.result)),
           pending |-> NoResponse ]
    ELSE [ res |-> NoResponse, pending |-> pend ]

\* The match on req_resp with a default arm that drops the deferred response.
Dispatch_OtherClears(st, pend, frame) ==
    LET req == ToNative(frame.req_resp)
    IN  IF req = VIRTIO_RPMB_REQ_PROGRAM_KEY
        THEN LET p == ProgramKey(st, frame)
             IN  [ res |-> p.res, pending |-> pend, state |-> p.state,
                   call |-> p.call ]
        ELSE IF req = VIRTIO_RPMB_REQ_RESULT_READ
        THEN LET r == ResultRead(pend)
             IN  [ res |-> r.res, pending |-> r.pending, state |-> st,
                   call |-> NoCall ]
        ELSE [ res |-> NoResponse, pending |-> NoResponse, state |-> st,
               call |-> NoCall ]

\* The match on req_resp in process_queue.
Dispatch(st, pend, frame) ==
    LET req == ToNative(frame.req_resp)
    IN  IF req = VIRTIO_RPMB_REQ_PROGRAM_KEY
        THEN LET p == ProgramKey(st, frame)
             IN  [ res |-> p.res, pending |-> pend, state |-> p.state,
                   call |-> p.call ]
        ELSE IF req = VIRTIO_RPMB_REQ_RESULT_READ
        THEN LET r == ResultRead(pend)
             IN  [ res |-> r.res, pending |-> r.pending, state |-> st,
                   call |-> NoCall ]
        ELSE [ res |-> NoResponse, pending |-> pend, state |-> st,
               call |-> NoCall ]

\* ------------------------------------------------------------------------
\* handle_event's checks of its arguments

\* What the guest's kick, or anything else the event loop saw, comes as.
DeviceEvents == {0, 1}

EventSets == { "EPOLLIN", "EPOLLOUT", "EPOLLIN|EPOLLHUP" }

\* The two checks in the other order.
EventCheck_QueueFirst(de, ev) ==
    IF de # 0 THEN "HandleEventUnknownEvent"
    ELSE IF ev # "EPOLLIN" THEN "HandleEventNotEpollIn"
    ELSE "Ok"

\* "if evset != EPOLLIN" and the default arm of "match device_event".
EventCheck(de, ev) ==
    IF ev # "EPOLLIN" THEN "HandleEventNotEpollIn"
    ELSE IF de # 0 THEN "HandleEventUnknownEvent"
    ELSE "Ok"

\* ------------------------------------------------------------------------
\* process_queue, one readable buffer at a time

\* The count check with 1 for 2.
CountOk_One(chain) ==
    ~(Len(chain) < 1)

\* buffers.len() < 2 is the chain's rejection.
CountOk(chain) ==
    ~(Len(chain) < 2)

\* A partition that hands the buffers over last first.
SelectDescs_Reversed(buffers, wo) ==
    LET sel == SelectSeq(buffers, LAMBDA b : b.write_only = wo)
    IN  [ i \in 1..Len(sel) |-> sel[Len(sel) + 1 - i] ]

\* buffers.into_iter().partition(|b| b.is_write_only())
SelectDescs(buffers, wo) ==
    SelectSeq(buffers, LAMBDA b : b.write_only = wo)

\* The match on res with a PendingResponse arm that keeps an unconsumed
\* pending response.
Reply_KeepFirst(rsp, pend, wr, addr_ok) ==
    IF rsp.tag = "Response"
    THEN IF wr = << >>
         THEN [ outcome |-> "panic", pending |-> pend, writeable |-> wr,
                replied |-> 0 ]
         ELSE IF wr[1].mem = Untouched /\ ~addr_ok
         THEN [ outcome |-> "DescriptorWriteFailed", pending |-> pend,
                writeable |-> wr, replied |-> 0 ]
         ELSE [ outcome |-> "ok", pending |-> pend,
                writeable |-> [wr EXCEPT ![1].mem = rsp.frame],
                replied |-> FrameSize ]
    ELSE IF rsp.tag = "PendingResponse"
    THEN [ outcome |-> "ok",
           pending |-> IF pend.tag = "PendingResponse" THEN pend ELSE rsp,
           writeable |-> wr, replied |-> 0 ]
    ELSE [ outcome |-> "ok", pending |-> pend, writeable |-> wr, replied |-> 0 ]

\* The match on res after the dispatch: what is written where, and how many
\* bytes are counted.  writeable[0] on an empty Vec panics; write_obj fails
\* when the address is not in guest memory (addr_ok), which the first write
\* to it finds out.
Reply(rsp, pend, wr, addr_ok) ==
    IF rsp.tag = "Response"
    THEN IF wr = << >>
         THEN [ outcome |-> "panic", pending |-> pend, writeable |-> wr,
                replied |-> 0 ]
         ELSE IF wr[1].mem = Untouched /\ ~addr_ok
         THEN [ outcome |-> "DescriptorWriteFailed", pending |-> pend,
                writeable |-> wr, replied |-> 0 ]
         ELSE [ outcome |-> "ok", pending |-> pend,
                writeable |-> [wr EXCEPT ![1].mem = rsp.frame],
                replied |-> FrameSize ]
    ELSE IF rsp.tag = "PendingResponse"
    THEN [ outcome |-> "ok", pending |-> rsp, writeable |-> wr, replied |-> 0 ]
    ELSE [ outcome |-> "ok", pending |-> pend, writeable |-> wr, replied |-> 0 ]

\* The body of the loop without the check of b.len().
HandleBuffer_NoSizeCheck(st, pend, wr, b, mem, read_ok, write_ok) ==
    IF ~read_ok
    THEN [ outcome |-> "DescriptorReadFailed", state |-> st,
           pending |-> pend, writeable |-> wr, replied |-> 0,
           frame |-> Untouched, res |-> NoResponse, call |-> NoCall ]
    ELSE LET d == Dispatch(st, pend, mem)
             r == Reply(d.res, d.pending, wr, write_ok)
         IN  [ outcome |-> r.outcome, state |-> d.state,
               pending |-> r.pending, writeable |-> r.writeable,
               replied |-> r.replied, frame |-> mem, res |-> d.res,
               call |-> d.call ]

\* The body of "for b in &readable": size check, read_obj, dispatch, reply.
\* mem is what lies at b's address, if the address is in guest memory
\* (read_ok); write_ok says the same of writeable[0]'s.
HandleBuffer(st, pend, wr, b, mem, read_ok, write_ok) ==
    IF b.len # FrameSize
    THEN [ outcome |-> "UnexpectedDescriptorSize", state |-> st,
           pending |-> pend, writeable |-> wr, replied |-> 0,
           frame |-> Untouched, res |-> NoResponse, call |-> NoCall ]
    ELSE IF ~read_ok
    THEN [ outcome |-> "DescriptorReadFailed", state |-> st,
           pending |-> pend, writeable |-> wr, replied |-> 0,
           frame |-> Untouched, res |-> NoResponse, call |-> NoCall ]
    ELSE LET d == Dispatch(st, pend, mem)
             r == Reply(d.res, d.pending, wr, write_ok)
         IN  [ outcome |-> r.outcome, state |-> d.state,
               pending |-> r.pending, writeable |-> r.writeable,
               replied |-> r.replied, frame |-> mem, res |-> d.res,
               call |-> d.call ]

\* ------------------------------------------------------------------------
\* State

VARIABLES
    state,      \* RpmbBackend.state: write_count, read_count, key
    event_idx,  \* VhostUserRpmb.event_idx
    avail,      \* number of chains made available and not yet taken
    notify,     \* whether the queue asks the guest for notifications
    pc,         \* where handle_event is
    ret,        \* what the last handle_event returned
    pending,    \* process_queue's local: the deferred response
    requests,   \* process_queue's local: chains of the batch still to do
    batch,      \* requests.len(): the chains this process_queue call took
    buffers,    \* the descriptors collected from the current chain
    readable,   \* readable buffers of the current chain still to do
    writeable,  \* writable buffers of the current chain
    consumed,   \* bytes counted for the current chain
    turns,      \* turns of the buffer loop done for the current chain
    frame,      \* the frame read in the last turn of the buffer loop
    res,        \* the response the dispatch gave for it
    key_call,   \* the call of the store's program_key made for it
    used,       \* bytes of the last used-ring entry of this process_queue
                \* call, NoEntry before the first
    signals,    \* signal_used_queue calls of this process_queue call
    lost,       \* number of chains taken from the ring and never marked used
    prev,       \* the PendingResponse given to the request dispatched before
                \* frame by this process_queue call (NoResponse if none was)
    image_len,  \* metadata.len() of the backing file
    capacity,   \* RpmbBackend.capacity
    config,     \* what the last get_config returned
    device_event, \* handle_event's argument: the queue index
    evset,      \* handle_event's argument: the epoll events
    first_key,  \* the key of the first program_key call the store got
    last        \* the PendingResponse given to the last request dispatched
                \* since the device started (NoResponse if it got none)

vars ==
    << state, event_idx, avail, notify, pc, ret, pending, requests, batch,
       buffers, readable, writeable, consumed, turns, frame, res, key_call,
       used, signals, prev, lost, image_len, capacity, config, device_event,
       evset, first_key, last >>

\* What only records the run: no step of the device reads it.
history ==
    << first_key, last >>

\* The backing store's image, and what the driver was told of it.
image ==
    << image_len, capacity, config >>

\* The arguments of the handle_event call under way.
eventArgs ==
    << device_event, evset >>

\* What process_queue holds while it runs.
queueLocals ==
    << pending, requests, batch, buffers, readable, writeable, consumed,
       turns, frame, res, key_call, used, signals, prev >>

NoEntry == << >>

\* Before main opens the backing file: nothing is in the queue.
Closed ==
    /\ state = NewState
    /\ event_idx = FALSE
    /\ avail = 0
    /\ notify = TRUE
    /\ ret = "none"
    /\ config = << >>
    /\ device_event = 0
    /\ evset = "EPOLLIN"
    /\ pending = NoResponse
    /\ requests = 0
    /\ batch = 0
    /\ buffers = << >>
    /\ readable = << >>
    /\ writeable = << >>
    /\ consumed = 0
    /\ turns = 0
    /\ frame = Untouched
    /\ res = NoResponse
    /\ key_call = NoCall
    /\ used = NoEntry
    /\ signals = 0
    /\ lost = 0
    /\ first_key = KeyEmpty
    /\ last = NoResponse
    /\ prev = NoResponse

\* VhostUserRpmb::new(RpmbBackend::new(..)) on the image of ImageLen bytes.
Init ==
    /\ Closed
    /\ pc = "idle"
    /\ image_len = ImageLen
    /\ capacity = BackendNew(ImageLen, TRUE).capacity

\* The locals of process_queue go out of scope.
DropLocals ==
    /\ pending' = NoResponse
    /\ requests' = 0
    /\ batch' = 0
    /\ buffers' = << >>
    /\ readable' = << >>
    /\ writeable' = << >>
    /\ consumed' = 0
    /\ turns' = 0
    /\ frame' = Untouched
    /\ res' = NoResponse
    /\ key_call' = NoCall
    /\ used' = NoEntry
    /\ signals' = 0
    /\ prev' = NoResponse

\* The guest makes a chain available, if it has a head free: a chain is the
\* device's from then until it is marked used.
GuestAddChain ==
    /\ avail + requests + lost < MaxHeads
    /\ avail' = avail + 1
    /\ UNCHANGED << state, event_idx, notify, pc, ret, queueLocals, lost,
                    history, image, eventArgs >>

\* set_event_idx
SetEventIdx ==
    /\ pc = "idle"
    /\ \E enabled \in BOOLEAN :
          /\ event_idx # enabled
          /\ event_idx' = enabled
    /\ UNCHANGED << state, avail, notify, pc, ret, queueLocals, lost, history,
                    image, eventArgs >>

\* handle_event, up to the first call of process_queue
HandleEvent ==
    /\ pc = "idle"
    /\ \E de \in DeviceEvents, ev \in EventSets :
          /\ device_event' = de
          /\ evset' = ev
          /\ IF EventCheck(de, ev) # "Ok"
             THEN pc' = "return" /\ ret' = EventCheck(de, ev)
             ELSE /\ pc' = IF event_idx THEN "disable" ELSE "process"
                  /\ ret' = "none"
    /\ UNCHANGED << state, event_idx, avail, notify, queueLocals, lost,
                    history, image >>

\* vring.mut_queue().disable_notification()
DisableNotification ==
    /\ pc = "disable"
    /\ notify' = FALSE
    /\ pc' = "process"
    /\ UNCHANGED << state, event_idx, avail, ret, queueLocals, lost, history,
                    image, eventArgs >>

\* process_queue, to the head of the loop over the chains
ProcessQueue ==
    /\ pc = "process"
    /\ avail' = 0
    /\ pending' = NoResponse
    /\ requests' = avail
    /\ batch' = avail
    /\ IF avail = 0
       THEN /\ pc' = IF event_idx THEN "enable" ELSE "return"
            /\ ret' = IF event_idx THEN ret ELSE "Ok"
       ELSE /\ pc' = "chain"
            /\ UNCHANGED ret
    /\ UNCHANGED << state, event_idx, notify, buffers, readable, writeable,
                    consumed, turns, frame, res, key_call, used, signals,
                    prev, lost, history, image, eventArgs >>

\* The head of "for desc_chain in requests": collect, count check,
\* partition; the chain is one of chains.
StartChainOf(chains) ==
    /\ pc = "chain"
    /\ \E chain \in chains :
          IF ~CountOk(chain)
          THEN /\ pc' = "return"
               /\ ret' = "UnexpectedDescriptorCount"
               /\ buffers' = chain
               /\ readable' = << >>
               /\ writeable' = << >>
               /\ lost' = lost + requests
          ELSE /\ writeable' = SelectDescs(chain, TRUE)
               /\ readable' = SelectDescs(chain, FALSE)
               /\ buffers' = << >>
               /\ pc' = "buffer"
               /\ UNCHANGED << ret, lost >>
    /\ consumed' = 0
    /\ turns' = 0
    /\ frame' = Untouched
    /\ res' = NoResponse
    /\ key_call' = NoCall
    /\ UNCHANGED << state, event_idx, avail, notify, pending, requests, batch,
                    used, signals, prev, history, image, eventArgs >>

\* The guest's chains are any chains of up to MaxChainLen descriptors.
StartChain ==
    StartChainOf(ChainsUpTo(MaxChainLen))

\* One turn of "for b in &readable".
HandleReadable ==
    /\ pc = "buffer"
    /\ readable # << >>
    /\ \E mem \in GuestFrames, read_ok \in BOOLEAN, write_ok \in BOOLEAN :
          LET h == HandleBuffer(state, pending, writeable, Head(readable),
                                mem, read_ok, write_ok)
          IN  /\ state' = h.state
              /\ pending' = h.pending
              /\ writeable' = h.writeable
              /\ frame' = h.frame
              /\ res' = h.res
              /\ key_call' = h.call
              /\ first_key' = IF h.call # NoCall /\ first_key = KeyEmpty
                              THEN KeyProgrammed(h.call.key) ELSE first_key
              /\ last' = IF h.frame = Untouched THEN last
                         ELSE IF h.res.tag = "PendingResponse" THEN h.res
                         ELSE NoResponse
              /\ prev' = IF h.frame = Untouched THEN prev
                         ELSE IF res.tag = "PendingResponse" THEN res
                         ELSE NoResponse
              /\ IF h.outcome = "ok"
                 THEN /\ consumed' = consumed + h.replied
                      /\ readable' = Tail(readable)
                      /\ turns' = turns + 1
                      /\ UNCHANGED << pc, ret, lost >>
                 ELSE IF h.outcome = "panic"
                 THEN /\ pc' = "panicked"
                      /\ ret' = "panic"
                      /\ UNCHANGED << readable, consumed, turns, lost >>
                 ELSE /\ pc' = "return"
                      /\ ret' = h.outcome
                      /\ lost' = lost + requests
                      /\ UNCHANGED << readable, consumed, turns >>
    /\ UNCHANGED << event_idx, avail, notify, requests, batch, buffers, used,
                    signals, image, eventArgs >>

\* After the last readable buffer: add_used, signal_used_queue, next chain.
FinishChain ==
    /\ pc = "buffer"
    /\ readable = << >>
    /\ used' = << consumed >>
    /\ signals' = signals + 1
    /\ requests' = requests - 1
    /\ \E sent \in BOOLEAN :
          IF ~sent
          THEN /\ pc' = "return"
               /\ ret' = "DescriptorSendFailed"
               /\ lost' = lost + (requests - 1)
          ELSE /\ UNCHANGED lost
               /\ IF requests = 1
                  THEN /\ pc' = IF event_idx THEN "enable" ELSE "return"
                       /\ ret' = IF event_idx THEN ret ELSE "Ok"
                  ELSE /\ pc' = "chain"
                       /\ UNCHANGED ret
    /\ UNCHANGED << state, event_idx, avail, notify, pending, batch, buffers,
                    readable, writeable, consumed, turns, frame, res,
                    key_call, prev, history, image, eventArgs >>

\* The loop left after one turn, whatever enable_notification returned.
EnableNotification_Break ==
    /\ pc = "enable"
    /\ notify' = TRUE
    /\ pc' = "return"
    /\ ret' = "Ok"
    /\ DropLocals
    /\ UNCHANGED << state, event_idx, avail, lost, history, image,
                    eventArgs >>

\* vring.mut_queue().enable_notification(): true when a chain has arrived.
EnableNotification ==
    /\ pc = "enable"
    /\ notify' = TRUE
    /\ IF avail # 0
       THEN pc' = "disable" /\ UNCHANGED ret
       ELSE pc' = "return" /\ ret' = "Ok"
    /\ DropLocals
    /\ UNCHANGED << state, event_idx, avail, lost, history, image,
                    eventArgs >>

\* handle_event has returned ret to the framework's event loop.
Returned ==
    /\ pc = "return"
    /\ pc' = "idle"
    /\ DropLocals
    /\ device_event' = 0
    /\ evset' = "EPOLLIN"
    /\ UNCHANGED << state, event_idx, avail, notify, ret, lost, history,
                    image >>

Next ==
    \/ GuestAddChain
    \/ SetEventIdx
    \/ HandleEvent
    \/ DisableNotification
    \/ ProcessQueue
    \/ StartChain
    \/ HandleReadable
    \/ FinishChain
    \/ EnableNotification
    \/ Returned

Spec ==
    Init /\ [][Next]_vars

\* ------------------------------------------------------------------------
\* The device with a driver that lays its chains out as LayoutChains.

StartLayoutChain ==
    StartChainOf(LayoutChains)

NextLayout ==
    \/ GuestAddChain
    \/ SetEventIdx
    \/ HandleEvent
    \/ DisableNotification
    \/ ProcessQueue
    \/ StartLayoutChain
    \/ HandleReadable
    \/ FinishChain
    \/ EnableNotification
    \/ Returned

SpecLayout ==
    Init /\ [][NextLayout]_vars

\* ------------------------------------------------------------------------
\* Start-up: main opens the backing file, the driver reads the config space.

InitOpen ==
    /\ Closed
    /\ pc = "closed"
    /\ image_len \in ImageLens
    /\ capacity = 0

\* RpmbBackend::new and VhostUserRpmb::new in main; main returns on an error.
OpenBackend ==
    /\ pc = "closed"
    /\ \E io_ok \in BOOLEAN :
          LET b == BackendNew(image_len, io_ok)
          IN  /\ capacity' = b.capacity
              /\ ret' = b.result
              /\ pc' = IF b.result = "Ok" THEN "idle" ELSE "exited"
    /\ UNCHANGED << state, event_idx, avail, notify, queueLocals, lost,
                    history, image_len, config, eventArgs >>

\* get_config
GetConfig ==
    /\ pc = "idle"
    /\ config' = << capacity, 1, 1 >>
    /\ UNCHANGED << state, event_idx, avail, notify, pc, ret, queueLocals,
                    lost, history, image_len, capacity, eventArgs >>

NextOpen ==
    \/ OpenBackend
    \/ GetConfig

SpecOpen ==
    InitOpen /\ [][NextOpen]_vars

\* ------------------------------------------------------------------------
\* Steps and values the properties speak of

\* The two bytes of a 16-bit field on the wire, most significant first.
Wire(n) ==
    << n \div 256, n % 256 >>

IsProgramKeyReq(f) ==
    f.req_resp = << 0, 1 >>

IsResultReadReq(f) ==
    f.req_resp = << 0, 5 >>

Deferred(result) ==
    [ tag |-> "PendingResponse", req_resp |-> 256, result |-> result ]

\* A step that read a frame and dispatched it: frame' is that frame.
Dispatched ==
    /\ pc = "buffer"
    /\ readable # << >>
    /\ frame' # Untouched
    /\ (turns' # turns \/ pc' # pc)

\* A step that took the next chain of the batch.
ChainStarted ==
    pc = "chain" /\ pc' # pc

\* A step that marked the current chain used.
ChainFinished ==
    pc = "buffer" /\ readable = << >> /\ pc' # pc

\* ------------------------------------------------------------------------
\* C1: of all the calls of the store's program_key, the first one returns Ok
\* and stores its key; every later one, with the same key or another,
\* returns the key error; and the stored key is at all times the key of the
\* first call (none before it).
C1_ProgramKeyOnce ==
    [][ /\ (Dispatched /\ key_call' # NoCall) =>
              IF first_key = KeyEmpty
              THEN /\ key_call'.result = "Ok"
                   /\ first_key' = KeyProgrammed(key_call'.key)
              ELSE /\ key_call'.result = "ProgramFailed"
                   /\ first_key' = first_key
        /\ state'.key = first_key' ]_vars

\* A later call with another key has failed and the first key is kept.
C1_Witness ==
    /\ key_call.result = "ProgramFailed"
    /\ first_key # KeyEmpty
    /\ key_call.key # first_key.key
    /\ state.key = first_key

\* C2: a result-read dispatched right after a program-key request, in the
\* same process_queue call or a later one (no call so far having ended with
\* an error), finds that request's PendingResponse and answers with it.
C2_PendingPersists ==
    [][ ( /\ Dispatched
          /\ IsResultReadReq(frame')
          /\ last.tag = "PendingResponse"
          /\ lost = 0 ) =>
           /\ pending = last
           /\ res'.tag = "Response"
           /\ res'.frame.req_resp = Wire(last.req_resp)
           /\ res'.frame.result = Wire(last.result) ]_vars

\* C3: a result-read dispatched while a response is pending produces the
\* result frame of that response and clears the slot; with a writable buffer
\* in the chain the turn ends well or with the write error, and when it ends
\* well the frame is in the first writable buffer, no other buffer changed,
\* and 512 more bytes are counted; the chain is marked used with the count.
C3_ResultReadDelivers ==
    [][ /\ (Dispatched /\ IsResultReadReq(frame') /\ pending.tag = "PendingResponse") =>
              /\ pending' = NoResponse
              /\ res'.tag = "Response"
              /\ res'.frame.req_resp = Wire(pending.req_resp)
              /\ res'.frame.result = Wire(pending.result)
              /\ writeable # << >> =>
                    (pc' = "buffer" \/ (pc' = "return" /\ ret' = "DescriptorWriteFailed"))
              /\ pc' = "buffer" =>
                    /\ writeable'[1].mem = res'.frame
                    /\ Len(writeable') = Len(writeable)
                    /\ \A i \in 2..Len(writeable) : writeable'[i] = writeable[i]
                    /\ consumed' = consumed + 512
        /\ ChainFinished => used' = << consumed >> ]_vars

\* The chain [result-read, writable], taken with the response {0x0100, 0}
\* pending, has been marked used with 512 bytes; the frame is in its buffer.
C3_Witness ==
    /\ used = << 512 >>
    /\ turns = 1
    /\ IsResultReadReq(frame)
    /\ res.tag = "Response"
    /\ Len(writeable) = 1
    /\ writeable[1].mem = res.frame
    /\ res.frame.req_resp = << 1, 0 >>
    /\ res.frame.result = << 0, 0 >>
    /\ pending = NoResponse

\* C4: a program-key request whose block_count is 1 calls the store's
\* program_key with the frame's key; the slot becomes {0x0100, RES_OK} when
\* the call returned Ok (the key is then the frame's) and {0x0100,
\* RES_WRITE_FAILURE} when it failed; nothing is written or counted, and a
\* chain whose only request it is is marked used with 0 bytes.
C4_ProgramKeyDeferred ==
    [][ /\ (Dispatched /\ IsProgramKeyReq(frame') /\ frame'.block_count = << 0, 1 >>) =>
              /\ key_call'.key = frame'.key_mac
              /\ key_call'.result \in { "Ok", "ProgramFailed" }
              /\ key_call'.result = "Ok" =>
                    /\ pending' = Deferred(0)
                    /\ state'.key = KeyProgrammed(frame'.key_mac)
              /\ key_call'.result = "ProgramFailed" =>
                    /\ pending' = Deferred(5)
                    /\ state' = state
              /\ writeable' = writeable
              /\ consumed' = consumed
              /\ pc' = "buffer"
        /\ ( /\ ChainFinished
             /\ turns = 1
             /\ IsProgramKeyReq(frame)
             /\ frame.block_count = << 0, 1 >> ) => used' = << 0 >> ]_vars

\* The chain [program-key(block_count 1, key K), writable] on a fresh device:
\* marked used with 0 bytes, K stored, {0x0100, RES_OK} pending, buffer
\* untouched.
C4_Witness ==
    /\ used = << 0 >>
    /\ turns = 1
    /\ IsProgramKeyReq(frame)
    /\ frame.block_count = << 0, 1 >>
    /\ key_call.result = "Ok"
    /\ state.key = KeyProgrammed(frame.key_mac)
    /\ pending = Deferred(0)
    /\ Len(writeable) = 1
    /\ writeable[1].mem = Untouched

\* C5: a program-key request whose block_count is not 1 makes the slot
\* {0x0100, RES_GENERAL_FAILURE}, makes no call of the store's program_key
\* and leaves the store (key, counters) as it was.
C5_BadBlockCount ==
    [][ (Dispatched /\ IsProgramKeyReq(frame') /\ frame'.block_count # << 0, 1 >>) =>
           /\ pending' = Deferred(1)
           /\ key_call' = NoCall
           /\ state' = state
           /\ pc' = "buffer" ]_vars

\* Such a request has been dispatched with a key already programmed.
C5_Witness ==
    /\ frame # Untouched
    /\ IsProgramKeyReq(frame)
    /\ frame.block_count # << 0, 1 >>
    /\ pending = Deferred(1)
    /\ state.key # KeyEmpty

\* C6: a result-read dispatched while the slot is NoResponse gets no
\* response, writes to no buffer, counts no bytes and leaves the slot
\* NoResponse.
C6_ResultReadNothing ==
    [][ (Dispatched /\ IsResultReadReq(frame') /\ pending = NoResponse) =>
           /\ res' = NoResponse
           /\ pending' = NoResponse
           /\ writeable' = writeable
           /\ consumed' = consumed
           /\ pc' = "buffer" ]_vars

\* The chain before delivered a response (512 bytes); this chain's
\* result-read got nothing, its writable buffer is untouched.
C6_Witness ==
    /\ pc = "buffer"
    /\ used = << 512 >>
    /\ turns = 1
    /\ IsResultReadReq(frame)
    /\ res = NoResponse
    /\ pending = NoResponse
    /\ consumed = 0
    /\ writeable # << >>
    /\ writeable[1].mem = Untouched

\* C7: every program-key request puts its own PendingResponse in the slot,
\* whatever the slot held, without an error or a crash; a result-read that
\* follows a program-key request in the same chain answers with that
\* request's response; and wherever a result-read follows a program-key
\* request and answers, it answers with that request's response.
C7_LastPendingWins ==
    [][ /\ (Dispatched /\ IsProgramKeyReq(frame')) =>
              /\ res'.tag = "PendingResponse"
              /\ pending' = res'
              /\ pc' = "buffer"
        /\ ( /\ Dispatched
             /\ IsResultReadReq(frame')
             /\ last.tag = "PendingResponse"
             /\ turns > 0 ) => res'.tag = "Response"
        /\ ( /\ Dispatched
             /\ IsResultReadReq(frame')
             /\ last.tag = "PendingResponse"
             /\ res'.tag = "Response" ) =>
              /\ res'.frame.req_resp = Wire(last.req_resp)
              /\ res'.frame.result = Wire(last.result) ]_vars

\* Two program-key requests in a row with different results: the slot holds
\* the second's.
C7_Witness ==
    /\ frame # Untouched
    /\ IsProgramKeyReq(frame)
    /\ prev.tag = "PendingResponse"
    /\ res.tag = "PendingResponse"
    /\ prev.result # res.result
    /\ pending = res

\* C8: when process_queue has gone through a batch of one or more chains
\* without an error, it has signalled the used queue once.
C8_OneSignalPerBatch ==
    ( /\ batch >= 1
      /\ requests = 0
      /\ (pc = "enable" \/ (pc = "return" /\ ret = "Ok")) ) => signals = 1

\* C9: no chain makes the process panic.
C9_NoPanic ==
    pc # "panicked"

\* C10: a chain of fewer than 2 descriptors makes handle_event return the
\* descriptor-count error, with the store unchanged and no buffer written;
\* a chain of 2 or more passes the count check.
C10_ShortChainRejected ==
    [][ ChainStarted =>
           LET n == Len(buffers') + Len(readable') + Len(writeable')
           IN  /\ n < 2 =>
                     /\ pc' = "return"
                     /\ ret' = "UnexpectedDescriptorCount"
                     /\ state' = state
                     /\ writeable' = << >>
               /\ n >= 2 => pc' = "buffer" ]_vars

\* A one-descriptor chain rejected after an earlier chain of the batch
\* programmed the key.
C10_Witness ==
    /\ pc = "return"
    /\ ret = "UnexpectedDescriptorCount"
    /\ Len(buffers) = 1
    /\ signals = 1
    /\ state.key # KeyEmpty

\* C11: handle_event returns NotEpollIn for every event set other than
\* EPOLLIN, whatever the queue index, and UnknownEvent for EPOLLIN with a
\* queue index other than 0; only EPOLLIN on queue 0 goes on to the queue.
\* A rejected event takes no chain, marks nothing used, signals nothing and
\* leaves the store and the deferred response as they were.
C11_EventRejected ==
    [][ /\ (pc = "idle" /\ pc' # pc) =>
              /\ evset' # "EPOLLIN" =>
                    (pc' = "return" /\ ret' = "HandleEventNotEpollIn")
              /\ (evset' = "EPOLLIN" /\ device_event' # 0) =>
                    (pc' = "return" /\ ret' = "HandleEventUnknownEvent")
              /\ (evset' = "EPOLLIN" /\ device_event' = 0) =>
                    pc' \in { "disable", "process" }
              /\ pc' = "return" =>
                    /\ avail' = avail
                    /\ state' = state
                    /\ notify' = notify
                    /\ lost' = lost
        /\ ( /\ pc = "return"
             /\ ret \in { "HandleEventNotEpollIn", "HandleEventUnknownEvent" } ) =>
              /\ batch = 0
              /\ used = << >>
              /\ signals = 0
              /\ pending = [ tag |-> "NoResponse" ]
              /\ state' = state
              /\ pc' # pc => (pc' = "idle" /\ avail' = avail) ]_vars

\* An event that is neither EPOLLIN nor on queue 0 was rejected for its
\* event set, with a chain waiting and a key programmed.
C11_Witness ==
    /\ pc = "return"
    /\ ret = "HandleEventNotEpollIn"
    /\ device_event # 0
    /\ avail > 0
    /\ state.key # KeyEmpty

\* C12: opening a backing file never fails on the capacity; once open, the
\* capacity is floor(min(L, 16 MiB) / 128 KiB) for the file's length L, lies
\* in 0..128, is 128 for every file longer than 16 MiB, and is what every
\* get_config reports.
C12_Capacity ==
    /\ ret # "InvalidData"
    /\ pc \notin { "closed", "exited" } =>
          LET m == IF image_len < 16777216 THEN image_len ELSE 16777216
          IN  /\ capacity = m \div 131072
              /\ capacity \in 0..128
              /\ image_len > 16777216 => capacity = 128
              /\ config # << >> => config = << m \div 131072, 1, 1 >>

\* A file longer than 16 MiB is open and the driver has read capacity 128.
C12_Witness ==
    /\ pc = "idle"
    /\ image_len > 16777216
    /\ capacity = 128
    /\ config = << 128, 1, 1 >>

\* C13: with event_idx, handle_event goes round {disable notifications;
\* take every available chain and process the batch; enable notifications}
\* and leaves the loop only when the ring is empty as notifications are
\* enabled again, so it returns Ok with no chain left in the ring that was
\* there at the last enabling, whenever the guest added its chains.  Without
\* event_idx the ring is drained once per event: process_queue is entered
\* from handle_event's entry only and is followed by the return.
C13_NoLostWakeup ==
    [][ /\ (pc = "disable" /\ pc' # pc) =>
              (pc' = "process" /\ notify' = FALSE /\ avail' = avail)
        /\ (pc = "process" /\ pc' # pc) =>
              (avail' = 0 /\ batch' = avail /\ requests' = avail)
        /\ (pc = "enable" /\ pc' # pc) =>
              /\ notify' = TRUE
              /\ avail' = avail
              /\ IF avail = 0 THEN pc' = "return" /\ ret' = "Ok"
                              ELSE pc' = "disable"
        /\ (pc' = "enable" /\ pc' # pc) => (event_idx /\ requests' = 0)
        /\ (pc' = "disable" /\ pc' # pc) =>
              (event_idx /\ pc \in { "idle", "enable" })
        /\ (pc' = "process" /\ pc' # pc) =>
              pc = (IF event_idx THEN "disable" ELSE "idle")
        /\ (pc' = "return" /\ ret' = "Ok" /\ pc' # pc) =>
              /\ requests' = 0
              /\ event_idx => (pc = "enable" /\ avail = 0 /\ notify')
              /\ ~event_idx => pc \in { "process", "buffer" } ]_vars

\* With event_idx, a batch has been processed and a chain that the guest
\* added meanwhile is in the ring as notifications are about to be enabled.
C13_Witness ==
    /\ pc = "enable"
    /\ event_idx
    /\ batch > 0
    /\ requests = 0
    /\ signals = batch
    /\ ~notify
    /\ avail > 0

\* Buffers in the order of their addresses, which is the chain's order.
InChainOrder(bufs) ==
    \A i, j \in 1..Len(bufs) : i < j => bufs[i].addr < bufs[j].addr

ShortReadableLeft ==
    \E i \in 1..Len(readable) : readable[i].len # 512

\* C15, as the specification has it: when handle_event returns from a chain that has a
\* readable buffer whose length is not 512, it returns the descriptor-size
\* error.
C15_AlwaysSizeError ==
    (pc = "return" /\ ShortReadableLeft) => ret = "UnexpectedDescriptorSize"

\* C15, amended: a chain with a readable buffer whose length is not 512 is
\* never marked used, its processing ends the call; when the device comes
\* to that buffer it returns the descriptor-size error, without reading,
\* decoding or dispatching it and without an effect on the store, the
\* deferred response or the writable buffers; only buffers of 512 bytes are
\* dispatched.  (An earlier buffer of the chain may have ended the call
\* with another error before the device came to it.)
C15_ShortBufferRejected ==
    [][ /\ ( /\ pc = "buffer"
             /\ readable # << >>
             /\ Head(readable).len # 512
             /\ (pc' # pc \/ turns' # turns) ) =>
              /\ pc' = "return"
              /\ ret' = "UnexpectedDescriptorSize"
              /\ frame' = Untouched
              /\ res' = [ tag |-> "NoResponse" ]
              /\ key_call' = NoCall
              /\ state' = state
              /\ pending' = pending
              /\ writeable' = writeable
              /\ consumed' = consumed
              /\ used' = used
        /\ (pc = "buffer" /\ ShortReadableLeft /\ pc' # pc) =>
              pc' \in { "return", "panicked" }
        /\ Dispatched => Head(readable).len = 512 ]_vars

\* The second readable buffer of a chain is a block long: rejected, after
\* the first was dispatched.
C15_Witness ==
    /\ pc = "return"
    /\ ret = "UnexpectedDescriptorSize"
    /\ turns = 1
    /\ readable # << >>
    /\ Head(readable).len = 256
    /\ frame = Untouched

\* All of a frame but req_resp and result is zero.
ZeroButResult(f) ==
    /\ f.stuff = 0
    /\ f.key_mac = 0
    /\ f.data = 0
    /\ f.nonce = 0
    /\ f.write_counter = 0
    /\ f.address = 0
    /\ f.block_count = << 0, 0 >>

\* C16: whatever a writable buffer holds that the device wrote is a frame
\* with req_resp 0x0100, a result code, and zero in every other field, the
\* key field included; a frame is written only in answer to a result-read,
\* to the first writable buffer, and carries the deferred pair it consumed.
C16_OnlyResultFrames ==
    [][ /\ \A i \in 1..Len(writeable') :
              writeable'[i].mem # Untouched =>
                 /\ ZeroButResult(writeable'[i].mem)
                 /\ writeable'[i].mem.req_resp = << 1, 0 >>
                 /\ writeable'[i].mem.result \in { << 0, 0 >>, << 0, 1 >>, << 0, 5 >> }
        /\ (pc = "buffer" /\ pc' = "buffer" /\ writeable' # writeable) =>
              /\ IsResultReadReq(frame')
              /\ pending.tag = "PendingResponse"
              /\ pending' = [ tag |-> "NoResponse" ]
              /\ Len(writeable') = Len(writeable)
              /\ \A i \in 2..Len(writeable) : writeable'[i] = writeable[i]
              /\ writeable'[1].mem.req_resp = Wire(pending.req_resp)
              /\ writeable'[1].mem.result = Wire(pending.result) ]_vars

\* A key is programmed and the answer to the result-read is in the buffer:
\* no key bytes in it.
C16_Witness ==
    /\ state.key # KeyEmpty
    /\ writeable # << >>
    /\ writeable[1].mem # Untouched
    /\ writeable[1].mem.key_mac = 0
    /\ writeable[1].mem.key_mac # state.key.key
    /\ IsResultReadReq(frame)

\* C17: a frame whose request code is neither 0x0001 nor 0x0005 gets no
\* response, nothing is written or counted for it, and the deferred
\* response and the store stay as they were.
C17_OtherRequestIgnored ==
    [][ ( /\ Dispatched
          /\ ~IsProgramKeyReq(frame')
          /\ ~IsResultReadReq(frame') ) =>
           /\ res' = [ tag |-> "NoResponse" ]
           /\ pending' = pending
           /\ state' = state
           /\ key_call' = NoCall
           /\ writeable' = writeable
           /\ consumed' = consumed
           /\ pc' = "buffer" ]_vars

\* Such a frame came after a program-key request: its response is still
\* deferred.
C17_Witness ==
    /\ pc = "buffer"
    /\ frame # Untouched
    /\ frame.req_resp = << 0, 2 >>
    /\ res = [ tag |-> "NoResponse" ]
    /\ pending = Deferred(0)
    /\ state.key # KeyEmpty

\* C18: no chain is taken from the available ring and never marked used.
C18_EveryChainUsed ==
    lost = 0

RECURSIVE TotalLen(_)
\* The lengths of the buffers added up.
TotalLen(bufs) ==
    IF bufs = << >> THEN 0 ELSE Head(bufs).len + TotalLen(Tail(bufs))

RECURSIVE Placed(_)
\* The bytes of the buffers that the device wrote: a frame is 512 bytes, a
\* buffer holds no more of it than its length.
Placed(bufs) ==
    IF bufs = << >> THEN 0
    ELSE (IF Head(bufs).mem = Untouched THEN 0
          ELSE IF Head(bufs).len < 512 THEN Head(bufs).len ELSE 512)
         + Placed(Tail(bufs))

\* C19: the length a chain is marked used with is the number of bytes the
\* device put in the chain's writable buffers, and no more than their
\* total length.
C19_UsedLenIsWritten ==
    ( /\ used # << >>
      /\ (pc \in { "chain", "enable" } \/ (pc = "return" /\ ret = "Ok")) ) =>
       /\ used[1] = Placed(writeable)
       /\ used[1] <= TotalLen(writeable)

\* C20: a chain rejected for the size of a buffer has had no effect: as the
\* first chain of its batch, it leaves no deferred response, and no request
\* of it has programmed the key.
C20_RejectedChainNoEffect ==
    ( /\ pc = "return"
      /\ ret = "UnexpectedDescriptorSize"
      /\ signals = 0
      /\ turns >= 1 ) =>
       /\ pending = [ tag |-> "NoResponse" ]
       /\ last # Deferred(0)

\* C21: a program-key request gets RES_OK only if the key was unset before
\* it and is the request's key after it, so at most one request ever gets
\* RES_OK; every program-key request dispatched with the key set gets
\* RES_WRITE_FAILURE or RES_GENERAL_FAILURE; and no step changes or unsets
\* a key that is set.
C21_KeyWriteOnce ==
    [][ /\ state.key # KeyEmpty => state'.key = state.key
        /\ (Dispatched /\ IsProgramKeyReq(frame')) =>
              /\ res'.tag = "PendingResponse"
              /\ res'.req_resp = 256
              /\ res'.result \in { 0, 1, 5 }
              /\ res'.result = 0 =>
                    /\ state.key = KeyEmpty
                    /\ state'.key = KeyProgrammed(frame'.key_mac)
              /\ state.key # KeyEmpty => res'.result \in { 1, 5 } ]_vars

\* The first frame of a one-chain batch, a program-key request with
\* block_count 1 and the key an earlier batch has set, got RES_WRITE_FAILURE.
C21_Witness ==
    /\ frame # Untouched
    /\ IsProgramKeyReq(frame)
    /\ frame.block_count = << 0, 1 >>
    /\ res = Deferred(5)
    /\ state.key = KeyProgrammed(frame.key_mac)
    /\ batch = 1
    /\ turns = 1

====
